---- MODULE Spec2Model ----
(***************************************************************************)
(* Model of the price tracker's React component PriceComparison            *)
(* (src/backend.spec, from line 77 on): the search / variant-selection /   *)
(* retailer-matching workflow (Spec), the name helpers of its two handlers *)
(* applied to one listing name (KeySpec), and the price-history chart of a *)
(* group, fetchGroupPriceHistory (HistorySpec).                            *)
(*                                                                         *)
(* JavaScript strings are modelled as sequences of one-character strings,  *)
(* so that toLowerCase, trim, split, replace and the regular expressions   *)
(* of the code are computed character by character.                        *)
(***************************************************************************)
EXTENDS Integers, Sequences, FiniteSets, TLC

\* ------------------------------------------------------------------------
\* Characters and the JavaScript string primitives the component uses
\* ------------------------------------------------------------------------

\* The characters of the modelled names, in UTF-16 code unit order.
CharOrder ==
  << " ", "(", ")", ",", "-", "/",
     "0", "1", "2", "3", "4", "5", "6", "7", "8", "9",
     "A", "B", "C", "D", "E", "F", "G", "H", "I", "J", "K", "L", "M",
     "N", "O", "P", "Q", "R", "S", "T", "U", "V", "W", "X", "Y", "Z",
     "a", "b", "c", "d", "e", "f", "g", "h", "i", "j", "k", "l", "m",
     "n", "o", "p", "q", "r", "s", "t", "u", "v", "w", "x", "y", "z",
     "|" >>

UpperChars ==
  << "A", "B", "C", "D", "E", "F", "G", "H", "I", "J", "K", "L", "M",
     "N", "O", "P", "Q", "R", "S", "T", "U", "V", "W", "X", "Y", "Z" >>

LowerChars ==
  << "a", "b", "c", "d", "e", "f", "g", "h", "i", "j", "k", "l", "m",
     "n", "o", "p", "q", "r", "s", "t", "u", "v", "w", "x", "y", "z" >>

Digits == {"0", "1", "2", "3", "4", "5", "6", "7", "8", "9"}

\* \s of the regular expressions (the modelled names hold no other blank)
WhiteSpace == {" "}

CharCode(c) == CHOOSE i \in DOMAIN CharOrder : CharOrder[i] = c

\* String.prototype.toLowerCase
LowerChar(c) ==
  IF \E i \in DOMAIN UpperChars : UpperChars[i] = c
  THEN LowerChars[CHOOSE i \in DOMAIN UpperChars : UpperChars[i] = c]
  ELSE c

toLowerCase(s) == [i \in DOMAIN s |-> LowerChar(s[i])]

\* String.prototype.trim
RECURSIVE trimStart(_)
trimStart(s) ==
  IF s # <<>> /\ Head(s) \in WhiteSpace THEN trimStart(Tail(s)) ELSE s

RECURSIVE trimEnd(_)
trimEnd(s) ==
  IF s # <<>> /\ s[Len(s)] \in WhiteSpace
  THEN trimEnd(SubSeq(s, 1, Len(s) - 1))
  ELSE s

trim(s) == trimEnd(trimStart(s))

\* s.replace(/[chars]/g, ''): every character of the class is removed
removeChars(s, chars) == SelectSeq(s, LAMBDA c : c \notin chars)

\* s.split(/[seps]+/): the pieces between maximal runs of separators; a
\* leading or trailing run leaves an empty first or last piece, and the
\* empty string splits into one empty piece.
RECURSIVE splitFrom(_, _, _, _, _)
splitFrom(s, seps, i, cur, acc) ==
  IF i > Len(s) THEN Append(acc, cur)
  ELSE IF s[i] \in seps
       THEN IF i > 1 /\ s[i - 1] \in seps
            THEN splitFrom(s, seps, i + 1, cur, acc)
            ELSE splitFrom(s, seps, i + 1, <<>>, Append(acc, cur))
       ELSE splitFrom(s, seps, i + 1, Append(cur, s[i]), acc)

split(s, seps) == splitFrom(s, seps, 1, <<>>, <<>>)

\* Array.prototype.join
RECURSIVE join(_, _)
join(parts, sep) ==
  IF parts = <<>> THEN <<>>
  ELSE IF Len(parts) = 1 THEN parts[1]
  ELSE parts[1] \o sep \o join(Tail(parts), sep)

\* The default comparison of Array.prototype.sort: by UTF-16 code units
RECURSIVE strLess(_, _)
strLess(a, b) ==
  IF b = <<>> THEN FALSE
  ELSE IF a = <<>> THEN TRUE
  ELSE IF Head(a) = Head(b) THEN strLess(Tail(a), Tail(b))
  ELSE CharCode(Head(a)) < CharCode(Head(b))

\* Array.prototype.sort() of an array of strings (stable insertion)
RECURSIVE insertSorted(_, _)
insertSorted(sorted, w) ==
  IF sorted = <<>> THEN <<w>>
  ELSE IF strLess(w, Head(sorted)) THEN <<w>> \o sorted
  ELSE <<Head(sorted)>> \o insertSorted(Tail(sorted), w)

RECURSIVE sort(_)
sort(arr) ==
  IF arr = <<>> THEN <<>>
  ELSE insertSorted(sort(SubSeq(arr, 1, Len(arr) - 1)), arr[Len(arr)])

\* Array.from(set).sort(): the elements of a Set, sorted
RECURSIVE sortedFromSet(_)
sortedFromSet(S) ==
  IF S = {} THEN <<>>
  ELSE LET m == CHOOSE x \in S : \A y \in S \ {x} : strLess(x, y)
       IN  <<m>> \o sortedFromSet(S \ {m})

Range(seq) == {seq[i] : i \in DOMAIN seq}

\* ------------------------------------------------------------------------
\* Identity resolver: getProductIdentityKey and the deduplication loop
\* ------------------------------------------------------------------------

\* const TIER_WORDS of handleSearchPreview
TIER_WORDS ==
  {
    <<"p", "r", "o">>,
    <<"m", "a", "x">>,
    <<"p", "l", "u", "s">>,
    <<"u", "l", "t", "r", "a">>,
    <<"m", "i", "n", "i">>,
    <<"l", "i", "t", "e">>,
    <<"s", "e">>,
    <<"a", "i", "r">> }

\* const COLOR_WORDS of handleSearchPreview
COLOR_WORDS ==
  {
    <<"b", "l", "a", "c", "k">>,
    <<"w", "h", "i", "t", "e">>,
    <<"s", "i", "l", "v", "e", "r">>,
    <<"g", "o", "l", "d">>,
    <<"g", "r", "e", "y">>,
    <<"g", "r", "a", "y">>,
    <<"b", "l", "u", "e">>,
    <<"r", "e", "d">>,
    <<"g", "r", "e", "e", "n">>,
    <<"p", "i", "n", "k">>,
    <<"p", "u", "r", "p", "l", "e">>,
    <<"m", "i", "d", "n", "i", "g", "h", "t">>,
    <<"s", "t", "a", "r", "l", "i", "g", "h", "t">>,
    <<"t", "i", "t", "a", "n", "i", "u", "m">>,
    <<"g", "r", "a", "p", "h", "i", "t", "e">>,
    <<"s", "p", "a", "c", "e">> }

\* the filler words excluded from coreWords
FILLER_WORDS ==
  {
    <<"t", "h", "e">>,
    <<"a", "n", "d">>,
    <<"w", "i", "t", "h">>,
    <<"f", "o", "r">>,
    <<"i", "n">>,
    <<"n", "e", "w">>,
    <<"n", "z">>,
    <<"w", "i", "f", "i">>,
    <<"w", "i", "-", "f", "i">> }

\* What a TypeError thrown by a property access on undefined is modelled by:
\* a value no string equals (its one element is not a character).
TypeError == <<"TypeError">>

\* End (exclusive) of the maximal run of characters of class cls from i
RECURSIVE runEnd(_, _, _)
runEnd(s, i, cls) ==
  IF i <= Len(s) /\ s[i] \in cls THEN runEnd(s, i + 1, cls) ELSE i

\* Whether /\d+\s*[gt]b/i matches s starting exactly at position i. The
\* character after \d+ is no digit and the one after \s* is no blank, so
\* both runs are taken whole.
storageEndAt(s, i) == runEnd(s, runEnd(s, i, Digits), WhiteSpace) + 1

storageMatchesAt(s, i) ==
  /\ i <= Len(s)
  /\ s[i] \in Digits
  /\ storageEndAt(s, i) <= Len(s)
  /\ s[storageEndAt(s, i) - 1] \in {"g", "t", "G", "T"}
  /\ s[storageEndAt(s, i)] \in {"b", "B"}

\* name.match(/(\d+\s*[gt]b)/i): group 1 of the leftmost match, or the
\* empty string when there is none, with the blanks removed
\* (storageMatch ? storageMatch[1].replace(/\s/g, '') : '')
storageOf(name) ==
  IF \E i \in DOMAIN name : storageMatchesAt(name, i)
  THEN LET i == CHOOSE k \in DOMAIN name :
                  /\ storageMatchesAt(name, k)
                  /\ \A j \in 1..(k - 1) : ~storageMatchesAt(name, j)
       IN  removeChars(SubSeq(name, i, storageEndAt(name, i)), WhiteSpace)
  ELSE <<>>

\* /^\d+\s*[gt]b$/i.test(w)
isStorageWord(w) == storageMatchesAt(w, 1) /\ storageEndAt(w, 1) = Len(w)

\* name.split(/[\s\-\/,]+/)
resolverWords(name) == split(name, WhiteSpace \cup {"-", "/", ","})

\* words.filter(w => TIER_WORDS.includes(w)).sort().join('-')
resolverTiers(words) ==
  join(sort(SelectSeq(words, LAMBDA w : w \in TIER_WORDS)), <<"-">>)

\* the filter of coreWords, before .slice(0, 4).join('-')
isCoreWord(w) ==
  /\ Len(w) > 1
  /\ w \notin COLOR_WORDS
  /\ w \notin TIER_WORDS
  /\ w \notin FILLER_WORDS
  /\ ~isStorageWord(w)

MaxCoreWords == 4

coreWordsOf(words) ==
  LET kept == SelectSeq(words, isCoreWord)
  IN  join(SubSeq(kept, 1, IF Len(kept) < MaxCoreWords THEN Len(kept)
                           ELSE MaxCoreWords), <<"-">>)

\* [coreWords, tiers, storage].filter(Boolean).join('|')
nameKey(name) ==
  LET words == resolverWords(name)
  IN  join(SelectSeq(<<coreWordsOf(words), resolverTiers(words),
                       storageOf(name)>>, LAMBDA part : part # <<>>),
           <<"|">>)

\* Faulty variant of getProductIdentityKey: the model code is lower-cased
\* but not trimmed
getProductIdentityKeyUntrimmed(product) ==
  IF product.model # <<>> /\ trim(product.model) # <<>>
  THEN toLowerCase(product.model)
  ELSE IF ~product.hasName THEN TypeError
  ELSE nameKey(toLowerCase(product.name))

\* getProductIdentityKey(product). A product is a record
\*   [retailer, hasName, name, model, price]
\* where hasName = FALSE stands for a listing without a name field
\* (product.name is undefined) and model = <<>> for an absent or empty
\* model (both are falsy in product.model && ...).
getProductIdentityKey(product) ==
  IF product.model # <<>> /\ trim(product.model) # <<>>
  THEN trim(toLowerCase(product.model))
  ELSE IF ~product.hasName THEN TypeError
  ELSE nameKey(toLowerCase(product.name))


\* ------------------------------------------------------------------------
\* Retailer matcher: the helpers of handleVariantSelected
\* ------------------------------------------------------------------------

\* const TIER_WORDS of handleVariantSelected (a Set, declared a second time)
TIER_WORDS_SET ==
  {
    <<"p", "r", "o">>,
    <<"m", "a", "x">>,
    <<"p", "l", "u", "s">>,
    <<"u", "l", "t", "r", "a">>,
    <<"m", "i", "n", "i">>,
    <<"l", "i", "t", "e">>,
    <<"s", "e">>,
    <<"a", "i", "r">>,
    <<"s", "t", "a", "n", "d", "a", "r", "d">>,
    <<"b", "a", "s", "i", "c">> }

\* the words extractKeyWords drops
STOP_WORDS ==
  {
    <<"t", "h", "e">>,
    <<"a", "n", "d">>,
    <<"w", "i", "t", "h">>,
    <<"f", "o", "r">>,
    <<"i", "n">> }

\* name.split(/[\s-]+/)
matcherSplit(name) == split(name, WhiteSpace \cup {"-"})

\* extractKeyWords(name)
extractKeyWords(name) ==
  Range(SelectSeq(matcherSplit(removeChars(toLowerCase(name), {"(", ")"})),
                  LAMBDA word : Len(word) > 0 /\ word \notin STOP_WORDS))

\* extractTierWords(name)
extractTierWords(name) ==
  {w \in Range(matcherSplit(toLowerCase(name))) : w \in TIER_WORDS_SET}

\* Array.from(tierWords).sort().join(',')
tierStr(tierWords) == join(sortedFromSet(tierWords), <<",">>)

\* Faulty variant of tierMismatch: the tier check is left out
tierMismatchIgnored(variantTierWords, productTierWords) == FALSE

\* Faulty variant of tierMismatch: only the variant's tier words are
\* looked for in the product's
tierMismatchOneWay(variantTierWords, productTierWords) ==
  ~(variantTierWords \subseteq productTierWords)

\* if (variantTierStr !== productTierStr) return false
tierMismatch(variantTierWords, productTierWords) ==
  tierStr(variantTierWords) # tierStr(productTierWords)

\* Faulty variant of isSignificant: another length threshold
isSignificantLonger(w) == Len(w) > 5 \/ \E i \in DOMAIN w : w[i] \in Digits

\* missingWords.filter(w => w.length > 3 || /\d/.test(w))
isSignificant(w) == Len(w) > 3 \/ \E i \in DOMAIN w : w[i] \in Digits

significantMissing(variantKeyWords, productKeyWords) ==
  {w \in variantKeyWords \ productKeyWords : isSignificant(w)}

Max(a, b) == IF a >= b THEN a ELSE b

\* The threshold 0.4 of `similarity >= 0.4`, as the fraction 2/5
SimilarityNum == 2
SimilarityDen == 5

\* intersection.size / Math.max(variantKeyWords.size, productKeyWords.size)
\* >= 0.4. With both sets empty the quotient is 0/0 = NaN, and NaN >= 0.4
\* is false; otherwise the sizes are small integers and the double
\* quotient compares with the double 0.4 as the fraction does with 2/5.
similarEnough(variantKeyWords, productKeyWords) ==
  LET size == Cardinality(variantKeyWords \cap productKeyWords)
      larger == Max(Cardinality(variantKeyWords), Cardinality(productKeyWords))
  IN  IF larger = 0 THEN FALSE
      ELSE SimilarityDen * size >= SimilarityNum * larger

\* The body of the strategy-2 filter callback, for key-word and tier-word
\* sets already extracted
fuzzyAccepts(variantKeyWords, variantTierWords, productKeyWords, productTierWords) ==
  IF tierMismatch(variantTierWords, productTierWords) THEN FALSE
  ELSE IF significantMissing(variantKeyWords, productKeyWords) # {} THEN FALSE
  ELSE similarEnough(variantKeyWords, productKeyWords)

\* The strategy-1 filter callback: p.model non-blank and
\* p.model.toLowerCase() === variant.model.toLowerCase()
modelAccepts(variantModel, productModel) ==
  IF productModel # <<>> /\ trim(productModel) # <<>>
  THEN toLowerCase(productModel) = toLowerCase(variantModel)
  ELSE FALSE


\* ------------------------------------------------------------------------
\* The raw listings a search can return
\* ------------------------------------------------------------------------

\* Raw listings {retailer, name, model, price} as the search-preview
\* endpoint returns them. hasName = FALSE: the listing has no name field.
\* {retailer: "PBTech", name: "Widget Pro 256GB", model: ""}
WidgetPro ==
  [retailer |-> "PBTech", hasName |-> TRUE,
   name |-> <<"W", "i", "d", "g", "e", "t", " ", "P", "r", "o", " ", "2", "5", "6", "G", "B">>,
   model |-> <<>>,
   price |-> 1299]

\* {retailer: "Noel Leeming", name: "Widget Pro 256GB (Black)", model: ""}
WidgetProBlack ==
  [retailer |-> "Noel Leeming", hasName |-> TRUE,
   name |-> <<"W", "i", "d", "g", "e", "t", " ", "P", "r", "o", " ", "2", "5", "6", "G", "B", " ", "(", "B", "l", "a", "c", "k", ")">>,
   model |-> <<>>,
   price |-> 1349]

\* {retailer: "JB Hi-Fi", name: "Widget 256GB", model: ""}
Widget ==
  [retailer |-> "JB Hi-Fi", hasName |-> TRUE,
   name |-> <<"W", "i", "d", "g", "e", "t", " ", "2", "5", "6", "G", "B">>,
   model |-> <<>>,
   price |-> 999]

\* {retailer: "Acquire", name: "", model: ""}
EmptyName ==
  [retailer |-> "Acquire", hasName |-> TRUE,
   name |-> <<>>,
   model |-> <<>>,
   price |-> 10]

\* {retailer: "PBTech", name: "Gadget X1", model: "SM-1"}
GadgetUpper ==
  [retailer |-> "PBTech", hasName |-> TRUE,
   name |-> <<"G", "a", "d", "g", "e", "t", " ", "X", "1">>,
   model |-> <<"S", "M", "-", "1">>,
   price |-> 500]

\* {retailer: "Noel Leeming", name: "Gadget X1 Black", model: "sm-1"}
GadgetLower ==
  [retailer |-> "Noel Leeming", hasName |-> TRUE,
   name |-> <<"G", "a", "d", "g", "e", "t", " ", "X", "1", " ", "B", "l", "a", "c", "k">>,
   model |-> <<"s", "m", "-", "1">>,
   price |-> 520]

\* {retailer: "JB Hi-Fi", name: "Gadget X1", model: "sm-1 "}
GadgetSpace ==
  [retailer |-> "JB Hi-Fi", hasName |-> TRUE,
   name |-> <<"G", "a", "d", "g", "e", "t", " ", "X", "1">>,
   model |-> <<"s", "m", "-", "1", " ">>,
   price |-> 510]

\* {retailer: "Acquire", name: "Widget 256GB Wifi Blue NZ", model: ""}
WidgetWifi ==
  [retailer |-> "Acquire", hasName |-> TRUE,
   name |-> <<"W", "i", "d", "g", "e", "t", " ", "2", "5", "6", "G", "B", " ", "W", "i", "f", "i", " ", "B", "l", "u", "e", " ", "N", "Z">>,
   model |-> <<>>,
   price |-> 1010]

\* {retailer: "PBTech", name: "Widget 256GB Wifi Blue NZ New", model: "  "}
WidgetWifiNew ==
  [retailer |-> "PBTech", hasName |-> TRUE,
   name |-> <<"W", "i", "d", "g", "e", "t", " ", "2", "5", "6", "G", "B", " ", "W", "i", "f", "i", " ", "B", "l", "u", "e", " ", "N", "Z", " ", "N", "e", "w">>,
   model |-> <<" ", " ">>,
   price |-> 1020]

\* {retailer: "Noel Leeming", name: undefined, model: ""}
NoName ==
  [retailer |-> "Noel Leeming", hasName |-> FALSE,
   name |-> <<>>,
   model |-> <<>>,
   price |-> 30]

\* {retailer: "JB Hi-Fi", name: undefined, model: "ZX-9"}
NoNameModel ==
  [retailer |-> "JB Hi-Fi", hasName |-> FALSE,
   name |-> <<>>,
   model |-> <<"Z", "X", "-", "9">>,
   price |-> 40]

\* {retailer: "Acquire", name: "The New", model: ""}
FillerOnly ==
  [retailer |-> "Acquire", hasName |-> TRUE,
   name |-> <<"T", "h", "e", " ", "N", "e", "w">>,
   model |-> <<>>,
   price |-> 20]

Catalogue ==
  << WidgetPro,
     WidgetProBlack,
     Widget,
     EmptyName,
     GadgetUpper,
     GadgetLower,
     GadgetSpace,
     WidgetWifi,
     WidgetWifiNew,
     NoName,
     NoNameModel,
     FillerOnly >>

\* A listing object is referred to by its position in the catalogue.
ProductIds == DOMAIN Catalogue

\* Longest products array a search-preview response holds
MaxListings == 3

\* The products arrays a response can hold
RECURSIVE ArraysUpTo(_)
ArraysUpTo(n) ==
  IF n = 0 THEN {<<>>}
  ELSE LET shorter == ArraysUpTo(n - 1)
       IN  shorter \cup {Append(a, id) : a \in {b \in shorter : Len(b) = n - 1},
                                         id \in ProductIds}

Responses == ArraysUpTo(MaxListings)

\* The string functions of the code, tabulated over the catalogue
identityKey == [id \in ProductIds |-> getProductIdentityKey(Catalogue[id])]

keyWords ==
  [id \in ProductIds |->
     IF Catalogue[id].hasName THEN extractKeyWords(Catalogue[id].name) ELSE {}]

tierWords ==
  [id \in ProductIds |->
     IF Catalogue[id].hasName THEN extractTierWords(Catalogue[id].name) ELSE {}]

\* The deduplication loop of handleSearchPreview:
\* for (const product of data.products) { ... seen ... uniqueProducts.push }
RECURSIVE dedupFrom(_, _, _, _)
dedupFrom(products, i, seen, uniqueProducts) ==
  IF i > Len(products) THEN uniqueProducts
  ELSE LET key == identityKey[products[i]]
       IN  IF key \notin seen
           THEN dedupFrom(products, i + 1, seen \cup {key},
                          Append(uniqueProducts, products[i]))
           ELSE dedupFrom(products, i + 1, seen, uniqueProducts)

\* Faulty variant of dedup: seen.add(key) is left out, so every listing is
\* pushed
dedupWithoutSeen(products) == products

\* Faulty variant of dedup: a listing with an empty key is skipped
\* (if (key && !seen.has(key)))
dedupTruthyKeys(products) ==
  dedupFrom(SelectSeq(products, LAMBDA id : identityKey[id] # <<>>), 1, {}, <<>>)

dedup(products) == dedupFrom(products, 1, {}, <<>>)

\* getProductIdentityKey throws inside the loop (product.name is undefined)
dedupThrows(products) ==
  \E i \in DOMAIN products : identityKey[products[i]] = TypeError

\* variant.model && variant.model.trim() !== ''
hasModel(model) == model # <<>> /\ trim(model) # <<>>

\* The filter callbacks of both strategies, tabulated over the catalogue:
\* [variant][p]
hasModelOf == [id \in ProductIds |-> hasModel(Catalogue[id].model)]

modelAcceptsOf ==
  [variant \in ProductIds |->
     [p \in ProductIds |->
        modelAccepts(Catalogue[variant].model, Catalogue[p].model)]]

fuzzyAcceptsOf ==
  [variant \in ProductIds |->
     [p \in ProductIds |->
        fuzzyAccepts(keyWords[variant], tierWords[variant],
                     keyWords[p], tierWords[p])]]

\* Strategy 1: allProducts.filter(p => ... model match ...), or [] when the
\* variant has no model
strategy1(variant, allProducts) ==
  IF hasModelOf[variant]
  THEN SelectSeq(allProducts, LAMBDA p : modelAcceptsOf[variant][p])
  ELSE <<>>

\* Strategy 2: allProducts.filter(p => ... fuzzy name match ...)
strategy2(variant, allProducts) ==
  SelectSeq(allProducts, LAMBDA p : fuzzyAcceptsOf[variant][p])

\* extractKeyWords(variant.name) or extractKeyWords(p.name) is called on
\* undefined: the handler ends with an uncaught TypeError
strategy2Throws(variant, allProducts) ==
  \/ ~Catalogue[variant].hasName
  \/ \E i \in DOMAIN allProducts : ~Catalogue[allProducts[i]].hasName

\* Faulty variant of usesStrategy2: the fuzzy strategy always runs
usesStrategy2Always(modelMatched) == TRUE

\* if (matchingProducts.length === 0) { ... strategy 2 ... }
usesStrategy2(modelMatched) == Len(modelMatched) = 0

\* matchingProducts, as handleVariantSelected has it after both strategies
matchProducts(variant, allProducts) ==
  IF usesStrategy2(strategy1(variant, allProducts))
  THEN strategy2(variant, allProducts)
  ELSE strategy1(variant, allProducts)

\* ------------------------------------------------------------------------
\* The component's state and its handlers
\* ------------------------------------------------------------------------

VARIABLES
  loading,           \* useState(false)
  searchStage,       \* useState('initial')
  searchResults,     \* useState(null); present = FALSE stands for null
  selectedVariant,   \* useState(null); 0 stands for null
  pc,                \* which await of a handler is pending
  modelMatched,      \* handleVariantSelected: matchingProducts after strategy 1
  triedFuzzy,        \* handleVariantSelected: the strategy-2 block was entered
  matchingProducts,  \* handleVariantSelected: matchingProducts after both
  outcome,           \* how the last run of handleVariantSelected went on
  addRequest,        \* products of the POST /products/add-selected in flight
  alert              \* the last alert() shown

formVars ==
  << loading, searchStage, searchResults, selectedVariant, pc, modelMatched,
     triedFuzzy, matchingProducts, outcome, addRequest, alert >>

\* One listing name taken through the name helpers of both handlers
VARIABLES
  listingName,       \* product.name, as the pieces it is written from
  identity,          \* getProductIdentityKey: its locals and its result
  tierSet            \* extractTierWords: its result

keyVars == << listingName, identity, tierSet >>

\* The price-history chart of the selected group
VARIABLES
  comparisonData,    \* the argument of fetchGroupPriceHistory: its products
  stored,            \* what /products/<id>/history answers for each product
  historyFetch,      \* the state of each promise of historyPromises
  historyPc,         \* where fetchGroupPriceHistory stands
  priceHistory       \* useState([])

historyVars ==
  << comparisonData, stored, historyFetch, historyPc, priceHistory >>

\* The comparison of a group's products, computed for GET /groups/<id>
VARIABLES
  groupProducts,     \* compare(products): the price of each product, in order
  comparisonResult   \* what compare returned; present = FALSE before the call

compareVars == << groupProducts, comparisonResult >>

\* The selected group and the requests made for it
VARIABLES
  selectedGroup,     \* useState(null); 0 stands for null, else the group's id
  comparison,        \* useState(null); present = FALSE stands for null
  inFlight,          \* the runs of fetchComparison and where each stands
  selections         \* how many times a group was clicked

selectVars == << selectedGroup, comparison, inFlight, selections >>

\* The main process of the desktop shell
VARIABLES
  platform,          \* process.platform
  isPackaged,        \* app.isPackaged
  binaryExists,      \* fs.existsSync(binaryPath)
  startup,           \* where the app.whenReady() callback stands
  attempt,           \* waitForFlask: the loop counter i
  healthRequests,    \* how many times /api/health was fetched
  flaskProcess,      \* let flaskProcess = null; FALSE stands for null
  backend,           \* the child process itself, as the system sees it
  loadingWindow,     \* the loading window is open
  mainWindow,        \* let mainWindow = null; FALSE stands for null
  allClosed,         \* a window-all-closed event is waiting for its handler
  errorBoxes,        \* how many times dialog.showErrorBox was called
  quitting,          \* where app.quit() stands
  beforeQuits,       \* how many times before-quit was emitted
  kills              \* how many termination requests the backend was sent

mainVars ==
  << platform, isPackaged, binaryExists, startup, attempt, healthRequests,
     flaskProcess, backend, loadingWindow, mainWindow, allClosed, errorBoxes,
     quitting, beforeQuits, kills >>

vars ==
  << formVars, keyVars, historyVars, compareVars, selectVars, mainVars >>

\* What the add form's handlers leave alone
outsideForm == << keyVars, historyVars, compareVars, selectVars, mainVars >>

\* What the name helpers leave alone
outsideKey == << formVars, historyVars, compareVars, selectVars, mainVars >>

\* What fetchGroupPriceHistory leaves alone
outsideHistory == << formVars, keyVars, compareVars, selectVars, mainVars >>

NoResults == [present |-> FALSE, products |-> <<>>, allProducts |-> <<>>]

FormInit ==
  /\ loading = FALSE
  /\ searchStage = "initial"
  /\ searchResults = NoResults
  /\ selectedVariant = 0
  /\ pc = "idle"
  /\ modelMatched = <<>>
  /\ triedFuzzy = FALSE
  /\ matchingProducts = <<>>
  /\ outcome = "none"
  /\ addRequest = <<>>
  /\ alert = "none"

\* The locals of getProductIdentityKey and of extractTierWords before a call
NoIdentity ==
  [done |-> FALSE, coreWords |-> <<>>, tiers |-> <<>>, storage |-> <<>>,
   key |-> <<>>]

NoTierSet == [done |-> FALSE, words |-> {}]

\* No listing name is being looked at
KeyUnused ==
  /\ listingName = <<>>
  /\ identity = NoIdentity
  /\ tierSet = NoTierSet

\* No group is selected: useState([]) of priceHistory, nothing fetched
HistoryUnused ==
  /\ comparisonData = <<>>
  /\ stored = <<>>
  /\ historyFetch = <<>>
  /\ historyPc = "idle"
  /\ priceHistory = <<>>

\* compare has not been called
NoComparison ==
  [present |-> FALSE, cheapest |-> 0, most_expensive |-> 0, price_range |-> 0]

CompareUnused ==
  /\ groupProducts = <<>>
  /\ comparisonResult = NoComparison

\* No group was clicked
NoGroupData == [present |-> FALSE, group |-> 0]

SelectUnused ==
  /\ selectedGroup = 0
  /\ comparison = NoGroupData
  /\ inFlight = <<>>
  /\ selections = 0

\* The desktop shell is not part of the run
MainUnused ==
  /\ platform = "none"
  /\ isPackaged = FALSE
  /\ binaryExists = FALSE
  /\ startup = "none"
  /\ attempt = 0
  /\ healthRequests = 0
  /\ flaskProcess = FALSE
  /\ backend = "none"
  /\ loadingWindow = FALSE
  /\ mainWindow = FALSE
  /\ allClosed = FALSE
  /\ errorBoxes = 0
  /\ quitting = "none"
  /\ beforeQuits = 0
  /\ kills = 0

OutsideFormUnused ==
  KeyUnused /\ HistoryUnused /\ CompareUnused /\ SelectUnused /\ MainUnused

Init == FormInit /\ OutsideFormUnused

\* The locals of a finished run of handleVariantSelected are gone
ForgetMatch ==
  /\ modelMatched' = <<>>
  /\ triedFuzzy' = FALSE
  /\ matchingProducts' = <<>>
  /\ outcome' = "none"
  /\ addRequest' = <<>>

\* The handlers are async functions: each runs without interruption up to
\* its next await, and pc names the await that is pending. One handler of
\* the add form is in flight at a time (pc = "idle" starts the next one).

\* handleSearchPreview up to its await of fetch(/search-preview). The search
\* form is rendered while searchStage = 'initial'.
HandleSearchPreview(query) ==
  /\ pc = "idle"
  /\ searchStage = "initial"
  /\ IF query = ""
     THEN /\ alert' = "Please enter a product name"
          /\ UNCHANGED << loading, searchStage, searchResults, selectedVariant,
                          pc, modelMatched, triedFuzzy, matchingProducts,
                          outcome, addRequest >>
     ELSE /\ loading' = TRUE
          /\ searchResults' = NoResults
          /\ selectedVariant' = 0
          /\ searchStage' = "variant-selection"
          /\ pc' = "search-preview"
          /\ alert' = "none"
          /\ ForgetMatch
  /\ UNCHANGED outsideForm

\* fetch or res.json() rejects: the catch block, then setLoading(false)
SearchPreviewError ==
  /\ pc = "search-preview"
  /\ alert' = "Search failed"
  /\ loading' = FALSE
  /\ pc' = "idle"
  /\ UNCHANGED << searchStage, searchResults, selectedVariant, modelMatched,
                  triedFuzzy, matchingProducts, outcome, addRequest >>
  /\ UNCHANGED outsideForm

\* data.success is false: the else branch, then setLoading(false)
SearchPreviewFailure ==
  /\ pc = "search-preview"
  /\ alert' = "data.error"
  /\ loading' = FALSE
  /\ pc' = "idle"
  /\ UNCHANGED << searchStage, searchResults, selectedVariant, modelMatched,
                  triedFuzzy, matchingProducts, outcome, addRequest >>
  /\ UNCHANGED outsideForm

\* data.success with data.products = products: the deduplication, then
\* setSearchResults; a TypeError of getProductIdentityKey goes to the catch,
\* which alerts `Search failed: ${err.message}`
SearchPreviewSuccess ==
  /\ pc = "search-preview"
  /\ \E products \in Responses :
       IF dedupThrows(products)
       THEN /\ alert' = "Search failed: Cannot read properties of undefined"
            /\ UNCHANGED searchResults
       ELSE /\ searchResults' = [present |-> TRUE,
                                 products |-> dedup(products),
                                 allProducts |-> products]
            /\ UNCHANGED alert
  /\ loading' = FALSE
  /\ pc' = "idle"
  /\ UNCHANGED << searchStage, selectedVariant, modelMatched, triedFuzzy,
                  matchingProducts, outcome, addRequest >>
  /\ UNCHANGED outsideForm

\* Faulty variant of noMatch: the check for an empty result is left out
noMatchIgnored(matched) == FALSE

\* if (matchingProducts.length === 0)
noMatch(matched) == Len(matched) = 0

\* handleVariantSelected(variantIndex) up to its return or its await of
\* fetch(/products/add-selected); confirmed is the answer to confirm().
\* The variant cards are rendered while searchStage = 'variant-selection'
\* and searchResults is set.
HandleVariantSelected(variantIndex, confirmed) ==
  /\ pc = "idle"
  /\ searchStage = "variant-selection"
  /\ searchResults.present
  /\ variantIndex \in DOMAIN searchResults.products
  /\ LET variant == searchResults.products[variantIndex]
         allProducts == searchResults.allProducts
         first == strategy1(variant, allProducts)
         fuzzy == usesStrategy2(first)
         threw == fuzzy /\ strategy2Throws(variant, allProducts)
         matched == IF threw THEN <<>> ELSE matchProducts(variant, allProducts)
     IN  /\ selectedVariant' = variant
         /\ modelMatched' = first
         /\ triedFuzzy' = fuzzy
         /\ matchingProducts' = matched
         /\ IF threw
            THEN \* uncaught TypeError: nothing after the filter runs
                 /\ outcome' = "threw"
                 /\ loading' = TRUE
                 /\ alert' = "none"
                 /\ addRequest' = <<>>
                 /\ pc' = "idle"
            ELSE IF noMatch(matched)
            THEN /\ outcome' = "no-match"
                 /\ alert' = "No matching products found"
                 /\ loading' = FALSE
                 /\ addRequest' = <<>>
                 /\ pc' = "idle"
            ELSE IF ~confirmed
            THEN /\ outcome' = "cancelled"
                 /\ alert' = "none"
                 /\ loading' = FALSE
                 /\ addRequest' = <<>>
                 /\ pc' = "idle"
            ELSE /\ outcome' = "confirmed"
                 /\ alert' = "none"
                 /\ loading' = TRUE
                 /\ addRequest' = matched
                 /\ pc' = "add-selected"
  /\ UNCHANGED << searchStage, searchResults >>
  /\ UNCHANGED outsideForm

\* The add-selected response with data.success: the form is reset
AddSelectedSuccess ==
  /\ pc = "add-selected"
  /\ alert' = "Added"
  /\ searchResults' = NoResults
  /\ selectedVariant' = 0
  /\ searchStage' = "initial"
  /\ loading' = FALSE
  /\ pc' = "idle"
  /\ ForgetMatch
  /\ UNCHANGED outsideForm

\* The add-selected response without data.success, or fetch rejecting
AddSelectedFailure(message) ==
  /\ pc = "add-selected"
  /\ alert' = message
  /\ loading' = FALSE
  /\ pc' = "idle"
  /\ addRequest' = <<>>
  /\ UNCHANGED << searchStage, searchResults, selectedVariant, modelMatched,
                  triedFuzzy, matchingProducts, outcome >>
  /\ UNCHANGED outsideForm

\* The "Back to Search" button, rendered with the variant cards
BackToSearch ==
  /\ pc = "idle"
  /\ searchStage = "variant-selection"
  /\ searchResults.present
  /\ searchResults' = NoResults
  /\ searchStage' = "initial"
  /\ UNCHANGED << loading, selectedVariant, alert, pc >>
  /\ ForgetMatch
  /\ UNCHANGED outsideForm

\* The X button of the add form
CloseForm ==
  /\ pc = "idle"
  /\ searchStage = "variant-selection"
  /\ searchResults' = NoResults
  /\ selectedVariant' = 0
  /\ searchStage' = "initial"
  /\ UNCHANGED << loading, alert, pc >>
  /\ ForgetMatch
  /\ UNCHANGED outsideForm

Next ==
  \/ \E query \in {"", "widget"} : HandleSearchPreview(query)
  \/ SearchPreviewError
  \/ SearchPreviewFailure
  \/ SearchPreviewSuccess
  \/ \E variantIndex \in DOMAIN searchResults.products, confirmed \in BOOLEAN :
       HandleVariantSelected(variantIndex, confirmed)
  \/ AddSelectedSuccess
  \/ \E message \in {"data.error", "Failed to add products"} :
       AddSelectedFailure(message)
  \/ BackToSearch
  \/ CloseForm

Spec == Init /\ [][Next]_vars

\* ------------------------------------------------------------------------
\* Properties
\* ------------------------------------------------------------------------

\* A run of handleVariantSelected computed matchingProducts to the end
MatchCompleted == outcome \in {"no-match", "cancelled", "confirmed"}

\* The model code of a listing, trimmed and lower-cased
normalizedModel ==
  [id \in ProductIds |-> toLowerCase(trim(Catalogue[id].model))]

\* Position of the first listing of products with the identity key of id
firstWithKey(products, id) ==
  CHOOSE i \in DOMAIN products :
    /\ identityKey[products[i]] = identityKey[id]
    /\ \A j \in 1..(i - 1) : identityKey[products[j]] # identityKey[id]

\* C1: the deduplicated products hold exactly one listing per distinct
\* identity key of the response, namely the first listing of the response
\* with that key, and in the order of the response.
C1_ResolveKeepsFirstPerKey ==
  searchResults.present =>
    LET unique == searchResults.products
        all == searchResults.allProducts
    IN  /\ {identityKey[unique[k]] : k \in DOMAIN unique}
             = {identityKey[all[i]] : i \in DOMAIN all}
        /\ \A k, l \in DOMAIN unique :
             k # l => identityKey[unique[k]] # identityKey[unique[l]]
        /\ \A k \in DOMAIN unique : unique[k] = all[firstWithKey(all, unique[k])]
        /\ \A k, l \in DOMAIN unique :
             k < l => firstWithKey(all, unique[k]) < firstWithKey(all, unique[l])

\* C1 witness: a response in which a later listing repeats the key of an
\* earlier, different listing and is followed by a listing with a new key
C1_Witness ==
  /\ searchResults.present
  /\ Len(searchResults.products) = 2
  /\ \E i, j, k \in DOMAIN searchResults.allProducts :
       /\ i < j /\ j < k
       /\ searchResults.allProducts[i] # searchResults.allProducts[j]
       /\ identityKey[searchResults.allProducts[i]]
            = identityKey[searchResults.allProducts[j]]
       /\ identityKey[searchResults.allProducts[k]]
            # identityKey[searchResults.allProducts[i]]

\* C2: two listings whose model codes are non-blank and equal after trimming
\* and lower-casing have the same identity key, that model code, whatever
\* their retailer and name; the response's deduplication keeps one of them.
C2_SameModelSameKey ==
  searchResults.present =>
    \A i, j \in DOMAIN searchResults.allProducts :
      LET p == searchResults.allProducts[i]
          q == searchResults.allProducts[j]
      IN  (/\ normalizedModel[p] # <<>>
           /\ normalizedModel[p] = normalizedModel[q])
          => /\ identityKey[p] = normalizedModel[p]
             /\ identityKey[q] = identityKey[p]
             /\ Cardinality({k \in DOMAIN searchResults.products :
                   identityKey[searchResults.products[k]] = identityKey[p]}) = 1

\* C2 witness: two listings of different retailers and names whose model
\* codes differ as strings but not after trimming and lower-casing
C2_Witness ==
  /\ searchResults.present
  /\ \E i, j \in DOMAIN searchResults.allProducts :
       LET p == searchResults.allProducts[i]
           q == searchResults.allProducts[j]
       IN  /\ normalizedModel[p] # <<>>
           /\ normalizedModel[p] = normalizedModel[q]
           /\ Catalogue[p].model # Catalogue[q].model
           /\ Catalogue[p].retailer # Catalogue[q].retailer
           /\ Catalogue[p].name # Catalogue[q].name
           /\ Len(searchResults.products) < Len(searchResults.allProducts)

\* The scenario of section 8: A "Widget Pro 256GB", B "Widget Pro 256GB
\* (Black)", C "Widget 256GB", none with a model code
idOf(listing) == CHOOSE id \in ProductIds : Catalogue[id] = listing

ScenarioA == idOf(WidgetPro)
ScenarioB == idOf(WidgetProBlack)
ScenarioC == idOf(Widget)

ScenarioSearched ==
  /\ searchResults.present
  /\ Len(searchResults.allProducts) = 3
  /\ Range(searchResults.allProducts) = {ScenarioA, ScenarioB, ScenarioC}

\* C3: for the listings A, B, C the deduplication yields exactly two
\* variants: A and B share an identity key, C has another.
C3_ScenarioTwoVariants ==
  ScenarioSearched =>
    /\ Len(searchResults.products) = 2
    /\ identityKey[ScenarioA] = identityKey[ScenarioB]
    /\ identityKey[ScenarioC] # identityKey[ScenarioA]

\* C4: for the listings A, B, C, selecting A matches exactly A and B.
C4_ScenarioMatch ==
  (ScenarioSearched /\ MatchCompleted /\ selectedVariant = ScenarioA)
    => /\ Range(matchingProducts) = {ScenarioA, ScenarioB}
       /\ Len(matchingProducts) = 2

\* C4 witness: A was selected among A, B, C and the match was confirmed
C4_Witness ==
  /\ ScenarioSearched
  /\ selectedVariant = ScenarioA
  /\ outcome = "confirmed"
  /\ triedFuzzy
  /\ addRequest = matchingProducts

\* C5: whenever handleVariantSelected computed its match, the selected
\* variant (one of allProducts) is among the matching products.
C5_MatchContainsChosen ==
  MatchCompleted => selectedVariant \in Range(matchingProducts)

\* C6: in a fuzzy match, no listing whose tier words differ from the
\* selected variant's is among the matching products.
C6_TierDifferenceRejects ==
  (MatchCompleted /\ triedFuzzy) =>
    \A i \in DOMAIN searchResults.allProducts :
      LET p == searchResults.allProducts[i]
      IN  tierWords[p] # tierWords[selectedVariant]
            => p \notin Range(matchingProducts)

\* C6 witness: a listing rejected for its tier words although it lacks no
\* key word of the variant and is similar enough
C6_Witness ==
  /\ MatchCompleted
  /\ triedFuzzy
  /\ \E i \in DOMAIN searchResults.allProducts :
       LET p == searchResults.allProducts[i]
       IN  /\ tierWords[p] # tierWords[selectedVariant]
           /\ keyWords[selectedVariant] \subseteq keyWords[p]
           /\ similarEnough(keyWords[selectedVariant], keyWords[p])
           /\ p \notin Range(matchingProducts)

\* C7: when the selected variant has a model code, strategy 1 yields exactly
\* the listings whose model code equals the variant's after trimming and
\* lower-casing both.
C7_ModelMatchTrimmed ==
  (MatchCompleted /\ normalizedModel[selectedVariant] # <<>>) =>
    modelMatched =
      SelectSeq(searchResults.allProducts,
                LAMBDA p : normalizedModel[p] = normalizedModel[selectedVariant])

\* C8: the fuzzy strategy is entered exactly when strategy 1 matched no
\* listing (the variant has no model code, or no listing's model code equals
\* it); otherwise the matching products are strategy 1's, nothing added.
C8_FuzzyOnlyAfterEmptyModelMatch ==
  outcome # "none" =>
    /\ triedFuzzy <=> Len(modelMatched) = 0
    /\ triedFuzzy <=>
         \/ ~hasModelOf[selectedVariant]
         \/ \A i \in DOMAIN searchResults.allProducts :
              ~modelAcceptsOf[selectedVariant][searchResults.allProducts[i]]
    /\ Len(modelMatched) > 0 => matchingProducts = modelMatched

\* C8 witness: strategy 1 matched, and a listing that the fuzzy strategy
\* would accept was not added
C8_Witness ==
  /\ MatchCompleted
  /\ Len(modelMatched) > 0
  /\ \E i \in DOMAIN searchResults.allProducts :
       /\ fuzzyAcceptsOf[selectedVariant][searchResults.allProducts[i]]
       /\ searchResults.allProducts[i] \notin Range(matchingProducts)

\* The key words of the variant that listing p lacks
missingWords(variant, p) == keyWords[variant] \ keyWords[p]

C10_SimilarityThreshold ==
  (MatchCompleted /\ triedFuzzy) =>
    \A i \in DOMAIN searchResults.allProducts :
      LET p == searchResults.allProducts[i]
          common == Cardinality(keyWords[selectedVariant] \cap keyWords[p])
          larger == Max(Cardinality(keyWords[selectedVariant]),
                        Cardinality(keyWords[p]))
      IN  (/\ tierWords[p] = tierWords[selectedVariant]
           /\ \A w \in missingWords(selectedVariant, p) : ~isSignificant(w))
          => (p \in Range(matchingProducts) <=> 5 * common >= 2 * larger)

\* ------------------------------------------------------------------------
\* The name helpers of both handlers, applied to one listing name
\* ------------------------------------------------------------------------

\* Pieces a listing name is written from; a name is a few of them with one
\* blank between two pieces.
\* "Widget"
PieceWidget ==
  <<"W", "i", "d", "g", "e", "t">>

\* "Galaxy Tab Active"
PieceGalaxyTabActive ==
  <<"G", "a", "l", "a", "x", "y", " ", "T", "a", "b", " ", "A", "c", "t", "i", "v", "e">>

\* "Pro"
PiecePro ==
  <<"P", "r", "o">>

\* "Max/Lite"
PieceMaxLite ==
  <<"M", "a", "x", "/", "L", "i", "t", "e">>

\* "Standard"
PieceStandard ==
  <<"S", "t", "a", "n", "d", "a", "r", "d">>

\* "Black"
PieceBlack ==
  <<"B", "l", "a", "c", "k">>

\* "256"
PieceDigits ==
  <<"2", "5", "6">>

\* "GB"
PieceUnit ==
  <<"G", "B">>

\* "256GB"
PieceStorage ==
  <<"2", "5", "6", "G", "B">>

\* "Widget|Pro"
PieceBar ==
  <<"W", "i", "d", "g", "e", "t", "|", "P", "r", "o">>

\* "The X"
PieceFiller ==
  <<"T", "h", "e", " ", "X">>

NamePieces ==
  << PieceWidget,
     PieceGalaxyTabActive,
     PiecePro,
     PieceMaxLite,
     PieceStandard,
     PieceBlack,
     PieceDigits,
     PieceUnit,
     PieceStorage,
     PieceBar,
     PieceFiller >>

PieceIds == DOMAIN NamePieces

\* Most pieces a listing name is written from
MaxNamePieces == 3

RECURSIVE PiecesUpTo(_)
PiecesUpTo(n) ==
  IF n = 0 THEN {<<>>}
  ELSE LET shorter == PiecesUpTo(n - 1)
       IN  shorter \cup {Append(a, id) : a \in {b \in shorter : Len(b) = n - 1},
                                         id \in PieceIds}

\* The listing names, each as the sequence of its pieces
ListingNames == PiecesUpTo(MaxNamePieces)

\* product.name of a listing written from pieces
nameText(pieces) ==
  join([i \in DOMAIN pieces |-> NamePieces[pieces[i]]], <<" ">>)

\* A raw listing without a model code: {retailer: "PBTech", name: name}
modelLess(name) ==
  [retailer |-> "PBTech", hasName |-> TRUE, name |-> name, model |-> <<>>,
   price |-> 100]

\* words.filter(w => TIER_WORDS.includes(w)), before .sort().join('-')
resolverTierWords(words) == SelectSeq(words, LAMBDA w : w \in TIER_WORDS)

\* The locals coreWords, tiers and storage of getProductIdentityKey for a
\* listing without a model code, and the key it returns
identityOf(name) ==
  LET lower == toLowerCase(name)
      words == resolverWords(lower)
  IN  [done |-> TRUE,
       coreWords |-> coreWordsOf(words),
       tiers |-> resolverTiers(words),
       storage |-> storageOf(lower),
       key |-> getProductIdentityKey(modelLess(name))]

\* Both helpers, tabulated over the listing names
identityOfName == [pieces \in ListingNames |-> identityOf(nameText(pieces))]

tierSetOfName ==
  [pieces \in ListingNames |-> extractTierWords(nameText(pieces))]

\* A search-preview response holds a listing of that name
KeyInit ==
  /\ listingName \in ListingNames
  /\ identity = NoIdentity
  /\ tierSet = NoTierSet
  /\ FormInit
  /\ HistoryUnused
  /\ CompareUnused
  /\ SelectUnused
  /\ MainUnused

\* The deduplication loop calls getProductIdentityKey(product)
GetProductIdentityKey ==
  /\ ~identity.done
  /\ identity' = identityOfName[listingName]
  /\ UNCHANGED << listingName, tierSet, outsideKey >>

\* handleVariantSelected calls extractTierWords(p.name)
ExtractTierWords ==
  /\ ~tierSet.done
  /\ tierSet' = [done |-> TRUE, words |-> tierSetOfName[listingName]]
  /\ UNCHANGED << listingName, identity, outsideKey >>

KeyNext ==
  \/ GetProductIdentityKey
  \/ ExtractTierWords

KeySpec == KeyInit /\ [][KeyNext]_vars

\* The tier words the resolver finds in the lower-cased name
resolverTierSet ==
  [pieces \in ListingNames |->
     Range(resolverTierWords(resolverWords(toLowerCase(nameText(pieces)))))]

\* C11: for every listing name, the tier words the matcher extracts
\* (extractTierWords) are the tier words the resolver extracts
\* (the TIER_WORDS filter of getProductIdentityKey).
C11_SameTierVocabulary ==
  tierSet.done => tierSet.words = resolverTierSet[listingName]


\* C12: two listings without a model code whose names hold different sets
\* of tier words never get the same identity key.
C12_DifferentTiersDifferentKeys ==
  identity.done =>
    \A other \in ListingNames :
      resolverTierSet[other] # resolverTierSet[listingName]
        => identityOfName[other].key # identity.key

\* Whether a piece of a name is one color word
isColorPiece(id) == toLowerCase(NamePieces[id]) \in COLOR_WORDS

\* The name without its color words
withoutColors(pieces) == SelectSeq(pieces, LAMBDA id : ~isColorPiece(id))

\* The words of coreWords, as joined by '-'
coreWordList(coreWords) ==
  IF coreWords = <<>> THEN <<>> ELSE split(coreWords, {"-"})

\* C13 (first half): the names of two listings without a model code that
\* differ only in their color words (present, absent or another color) get
\* the same identity key: the key of a name is the key of the name without
\* its color words.
C13_ColorsLeaveKey ==
  identity.done => identity.key = identityOfName[withoutColors(listingName)].key

\* C13 (second half): coreWords holds no color word, no tier word, no stop
\* word, no one-character word and not the storage size, and at most four
\* words.
C13_CoreWordsExclude ==
  identity.done =>
    LET core == coreWordList(identity.coreWords)
    IN  /\ Len(core) <= MaxCoreWords
        /\ \A i \in DOMAIN core :
             /\ core[i] \notin COLOR_WORDS
             /\ core[i] \notin TIER_WORDS
             /\ core[i] \notin FILLER_WORDS
             /\ Len(core[i]) > 1
             /\ core[i] # identity.storage

\* C13: color words never change the identity key of a listing without a
\* model code, and coreWords holds at most four words, none of them a color
\* word, a tier word, a stop word, a one-character word or the storage size.
C13_ColorInsensitive == C13_ColorsLeaveKey /\ C13_CoreWordsExclude

\* The non-empty ones among coreWords, tiers and storage
keyParts(id) ==
  SelectSeq(<<id.coreWords, id.tiers, id.storage>>, LAMBDA part : part # <<>>)

\* C14: the name-derived key is the non-empty ones among coreWords, tiers
\* and storage joined by '|', and '|' occurs in none of the three.
C14_KeyPartsSeparated ==
  identity.done =>
    /\ identity.key = join(keyParts(identity), <<"|">>)
    /\ \A part \in Range(keyParts(identity)) : "|" \notin Range(part)


\* ------------------------------------------------------------------------
\* Price history of a group: fetchGroupPriceHistory
\* ------------------------------------------------------------------------

\* entry.timestamp of stored price checks, in ascending order; the backend
\* writes them with 'T' or with a blank between date and time
\* "2026-01-01T09:00:00"
DayOneMorning ==
  <<"2", "0", "2", "6", "-", "0", "1", "-", "0", "1", "T", "0", "9", ":", "0", "0", ":", "0", "0">>

\* "2026-01-01 18:30:00"
DayOneEvening ==
  <<"2", "0", "2", "6", "-", "0", "1", "-", "0", "1", " ", "1", "8", ":", "3", "0", ":", "0", "0">>

\* "2026-01-02 09:00:00"
DayTwo ==
  <<"2", "0", "2", "6", "-", "0", "1", "-", "0", "2", " ", "0", "9", ":", "0", "0", ":", "0", "0">>

\* "2026-01-03T09:00:00"
DayThree ==
  <<"2", "0", "2", "6", "-", "0", "1", "-", "0", "3", "T", "0", "9", ":", "0", "0", ":", "0", "0">>

Timestamps == << DayOneMorning, DayOneEvening, DayTwo, DayThree >>

TimestampIds == DOMAIN Timestamps

\* entry.price of stored price checks
Prices == {90, 100, 110}

\* Most entries one history response holds
MaxEntries == 2

\* The timestamps of an array of up to n entries, ascending as the backend
\* stores and returns them
AscendingIds(n) ==
  {ids \in UNION {[1..k -> TimestampIds] : k \in 0..n} :
     \A i \in 1..(Len(ids) - 1) : ids[i] < ids[i + 1]}

\* The arrays [{timestamp, price}, ...] a history request can answer
Histories ==
  UNION {{[i \in DOMAIN ids |->
             [timestamp |-> Timestamps[ids[i]], price |-> prices[i]]] :
            prices \in [DOMAIN ids -> Prices]} :
         ids \in AscendingIds(MaxEntries)}

\* What res.json() of a history request yields: an array of entries, or a
\* body that is no array (the error object of a failed request)
ErrorBody == [isArray |-> FALSE, entries |-> <<>>]

HistoryBodies ==
  {[isArray |-> TRUE, entries |-> h] : h \in Histories} \cup {ErrorBody}

\* comparisonData.products, each product by its retailer
Groups == {<<>>, <<"PBTech">>, <<"PBTech", "Noel Leeming">>}

\* s.split(c)[0]: the part of s before the first c, or all of s
beforeFirst(s, c) ==
  IF \E i \in DOMAIN s : s[i] = c
  THEN SubSeq(s, 1, (CHOOSE i \in DOMAIN s :
                       s[i] = c /\ \A j \in 1..(i - 1) : s[j] # c) - 1)
  ELSE s

\* Faulty variant of dateOf: the timestamp is not cut down to its date
dateOfWhole(timestamp) == timestamp

\* entry.timestamp.split('T')[0].split(' ')[0]
dateOf(timestamp) == beforeFirst(beforeFirst(timestamp, "T"), " ")

\* Faulty variant of putEntry: a price already in the row is kept
putEntryKeepFirst(dateMap, retailer, entry) ==
  LET date == dateOf(entry.timestamp)
      withRow == IF \E i \in DOMAIN dateMap : dateMap[i].date = date
                 THEN dateMap
                 ELSE Append(dateMap, [date |-> date, cells |-> <<>>])
  IN  [i \in DOMAIN withRow |->
         IF withRow[i].date = date
         THEN [withRow[i] EXCEPT !.cells = @ @@ (retailer :> entry.price)]
         ELSE withRow[i]]

\* if (!dateMap[date]) dateMap[date] = { date };
\* dateMap[date][retailer] = entry.price;
\* dateMap is the sequence of its rows in insertion order; a row is
\* [date, cells], cells being the retailer properties the row has.
putEntry(dateMap, retailer, entry) ==
  LET date == dateOf(entry.timestamp)
      withRow == IF \E i \in DOMAIN dateMap : dateMap[i].date = date
                 THEN dateMap
                 ELSE Append(dateMap, [date |-> date, cells |-> <<>>])
  IN  [i \in DOMAIN withRow |->
         IF withRow[i].date = date
         THEN [withRow[i] EXCEPT !.cells = (retailer :> entry.price) @@ @]
         ELSE withRow[i]]

\* for (const entry of history) { ... }
RECURSIVE putEntries(_, _, _, _)
putEntries(dateMap, retailer, history, i) ==
  IF i > Len(history) THEN dateMap
  ELSE putEntries(putEntry(dateMap, retailer, history[i]), retailer,
                  history, i + 1)

\* for (const { retailer, history } of allHistory) { ... }
RECURSIVE buildDateMap(_, _, _)
buildDateMap(allHistory, k, dateMap) ==
  IF k > Len(allHistory) THEN dateMap
  ELSE buildDateMap(allHistory, k + 1,
                    putEntries(dateMap, allHistory[k].retailer,
                               allHistory[k].history, 1))

\* a.date.localeCompare(b.date): the dates are digits and '-' in one
\* layout, which every collation orders as their code units do
localeCompare(a, b) == IF a = b THEN 0 ELSE IF strLess(a, b) THEN -1 ELSE 1

\* Object.values(dateMap).sort((a, b) => a.date.localeCompare(b.date)),
\* a stable sort
RECURSIVE insertRow(_, _)
insertRow(sorted, row) ==
  IF sorted = <<>> THEN <<row>>
  ELSE IF localeCompare(row.date, Head(sorted).date) < 0 THEN <<row>> \o sorted
  ELSE <<Head(sorted)>> \o insertRow(Tail(sorted), row)

RECURSIVE sortByDate(_)
sortByDate(rows) ==
  IF rows = <<>> THEN <<>>
  ELSE insertRow(sortByDate(SubSeq(rows, 1, Len(rows) - 1)), rows[Len(rows)])

\* Faulty variant of fillRow: a known earlier price replaces the row's own
fillRowAlways(row, lastKnown, retailers) ==
  [row EXCEPT !.cells =
     [r \in DOMAIN row.cells \cup (Range(retailers) \cap DOMAIN lastKnown) |->
        IF r \in DOMAIN lastKnown THEN lastKnown[r] ELSE row.cells[r]]]

\* else if (lastKnown[retailer] != null) row[retailer] = lastKnown[retailer]
fillRow(row, lastKnown, retailers) ==
  [row EXCEPT !.cells =
     [r \in DOMAIN row.cells \cup (Range(retailers) \cap DOMAIN lastKnown) |->
        IF r \in DOMAIN row.cells THEN row.cells[r] ELSE lastKnown[r]]]

\* if (row[retailer] != null) lastKnown[retailer] = row[retailer]
knownAfter(row, lastKnown, retailers) ==
  [r \in DOMAIN lastKnown \cup (Range(retailers) \cap DOMAIN row.cells) |->
     IF r \in DOMAIN row.cells THEN row.cells[r] ELSE lastKnown[r]]

RECURSIVE fillFrom(_, _, _, _)
fillFrom(sorted, retailers, i, lastKnown) ==
  IF i > Len(sorted) THEN <<>>
  ELSE <<fillRow(sorted[i], lastKnown, retailers)>>
         \o fillFrom(sorted, retailers, i + 1,
                     knownAfter(sorted[i], lastKnown, retailers))

\* Faulty variant of forwardFill: the gaps are left as they are
forwardFillNone(sorted, retailers) == sorted

\* const lastKnown = {}; for (const row of sorted) { ... }
forwardFill(sorted, retailers) == fillFrom(sorted, retailers, 1, <<>>)

\* The rows fetchGroupPriceHistory passes to setPriceHistory: allHistory is
\* the value of Promise.all, retailers the retailers of the products
merge(allHistory, retailers) ==
  forwardFill(sortByDate(buildDateMap(allHistory, 1, <<>>)), retailers)


\* The values of the fulfilled promises of historyPromises, in the order
\* of the products: { retailer: product.retailer, history }
resolvedHistory(products, bodies, fetch) ==
  LET fulfilled == SelectSeq([k \in DOMAIN products |-> k],
                             LAMBDA k : fetch[k] = "fulfilled")
  IN  [n \in DOMAIN fulfilled |->
         [retailer |-> products[fulfilled[n]], body |-> bodies[fulfilled[n]]]]

\* The argument of the date table's loops: the arrays of the resolved values
allHistoryOf(resolved) ==
  [n \in DOMAIN resolved |->
     [retailer |-> resolved[n].retailer, history |-> resolved[n].body.entries]]

\* Faulty variant of promiseAllFulfilled: the first fulfilled promise is
\* enough
promiseAnyFulfilled(fetch) == \E k \in DOMAIN fetch : fetch[k] = "fulfilled"

\* await Promise.all(historyPromises) goes on once every promise is fulfilled
promiseAllFulfilled(fetch) == \A k \in DOMAIN fetch : fetch[k] = "fulfilled"

\* A group is selected and fetchComparison has emptied priceHistory; stored
\* is what the backend holds for each product of the group
HistoryInit ==
  /\ comparisonData \in Groups
  /\ stored \in [DOMAIN comparisonData -> HistoryBodies]
  /\ historyFetch = <<>>
  /\ historyPc = "idle"
  /\ priceHistory = <<>>
  /\ FormInit
  /\ KeyUnused
  /\ CompareUnused
  /\ SelectUnused
  /\ MainUnused

\* fetchGroupPriceHistory(comparisonData) up to await Promise.all: without
\* products it sets the empty series and returns, otherwise one request per
\* product is sent
FetchGroupPriceHistory ==
  /\ historyPc = "idle"
  /\ IF Len(comparisonData) = 0
     THEN /\ priceHistory' = <<>>
          /\ historyPc' = "done"
          /\ UNCHANGED historyFetch
     ELSE /\ historyFetch' = [k \in DOMAIN comparisonData |-> "pending"]
          /\ historyPc' = "awaiting"
          /\ UNCHANGED priceHistory
  /\ UNCHANGED << comparisonData, stored, outsideHistory >>

\* The request of product k is answered and res.json() yields stored[k].
\* When that was the last promise, Promise.all is fulfilled and the rest of
\* fetchGroupPriceHistory runs: the date table, the sort, the forward fill
\* and setPriceHistory(sorted); a body that is no array makes for...of throw
\* into the catch block, which sets the empty series.
HistoryFulfilled(k) ==
  /\ k \in DOMAIN historyFetch
  /\ historyFetch[k] = "pending"
  /\ LET fetch == [historyFetch EXCEPT ![k] = "fulfilled"]
         resolved == resolvedHistory(comparisonData, stored, fetch)
     IN  /\ historyFetch' = fetch
         /\ IF historyPc = "awaiting" /\ promiseAllFulfilled(fetch)
            THEN IF \E n \in DOMAIN resolved : ~resolved[n].body.isArray
                 THEN /\ priceHistory' = <<>>
                      /\ historyPc' = "failed"
                 ELSE /\ priceHistory' = merge(allHistoryOf(resolved),
                                               comparisonData)
                      /\ historyPc' = "done"
            ELSE UNCHANGED << priceHistory, historyPc >>
  /\ UNCHANGED << comparisonData, stored, outsideHistory >>

\* fetch or res.json() of product k rejects: Promise.all rejects at once and
\* the catch block sets the empty series; later answers change nothing
HistoryRejected(k) ==
  /\ k \in DOMAIN historyFetch
  /\ historyFetch[k] = "pending"
  /\ historyFetch' = [historyFetch EXCEPT ![k] = "rejected"]
  /\ IF historyPc = "awaiting"
     THEN /\ priceHistory' = <<>>
          /\ historyPc' = "failed"
     ELSE UNCHANGED << priceHistory, historyPc >>
  /\ UNCHANGED << comparisonData, stored, outsideHistory >>

HistoryNext ==
  \/ FetchGroupPriceHistory
  \/ \E k \in DOMAIN comparisonData : HistoryFulfilled(k)
  \/ \E k \in DOMAIN comparisonData : HistoryRejected(k)

HistorySpec == HistoryInit /\ [][HistoryNext]_vars


\* ------------------------------------------------------------------------
\* Properties of the price history
\* ------------------------------------------------------------------------

\* The calendar date of an ISO timestamp: its first ten characters
calendarDate(timestamp) == SubSeq(timestamp, 1, 10)

\* The retailers' series were all fetched and merged
HistoryMerged == historyPc = "done"

\* The positions of product k's entries observed on date d
observedOn(k, d) ==
  {i \in DOMAIN stored[k].entries :
     calendarDate(stored[k].entries[i].timestamp) = d}

\* The dates on which product k was observed, and those of all products
datesOfProduct(k) ==
  {calendarDate(stored[k].entries[i].timestamp) : i \in DOMAIN stored[k].entries}

observedDates == UNION {datesOfProduct(k) : k \in DOMAIN comparisonData}

\* C15: the merged series has exactly one row per calendar date on which
\* any retailer of the group was observed, no other row, and its rows are
\* in strictly ascending order of date.
C15_OneRowPerDateAscending ==
  HistoryMerged =>
    /\ {priceHistory[i].date : i \in DOMAIN priceHistory} = observedDates
    /\ \A i, j \in DOMAIN priceHistory :
         i < j => strLess(priceHistory[i].date, priceHistory[j].date)

\* C15 witness: two retailers observed on the same day at different times,
\* and the first retailer's dates do not all come before the second's
C15_Witness ==
  /\ HistoryMerged
  /\ Len(comparisonData) = 2
  /\ Len(priceHistory) = 3
  /\ \E i \in DOMAIN stored[1].entries, j \in DOMAIN stored[2].entries :
       /\ stored[1].entries[i].timestamp # stored[2].entries[j].timestamp
       /\ calendarDate(stored[1].entries[i].timestamp)
            = calendarDate(stored[2].entries[j].timestamp)
  /\ \E i \in DOMAIN stored[1].entries, j \in DOMAIN stored[2].entries :
       strLess(calendarDate(stored[2].entries[j].timestamp),
               calendarDate(stored[1].entries[i].timestamp))

\* The last position of a non-empty set of positions
lastOf(positions) == CHOOSE i \in positions : \A j \in positions : j <= i

\* The dates before d on which product k was observed
earlierDates(k, d) == {e \in datesOfProduct(k) : strLess(e, d)}

latestOf(dates) == CHOOSE e \in dates : \A f \in dates : f = e \/ strLess(f, e)

\* C16: at date d the merged cell of retailer r holds r's observation of d
\* if there is one, else r's price of the latest earlier date with an
\* observation, and is missing when r has no observation up to d; a later
\* observation is never used.
C16_ForwardFillOnly ==
  HistoryMerged =>
    \A n \in DOMAIN priceHistory, k \in DOMAIN comparisonData :
      LET row == priceHistory[n]
          r == comparisonData[k]
          entries == stored[k].entries
      IN  IF observedOn(k, row.date) # {}
          THEN /\ r \in DOMAIN row.cells
               /\ row.cells[r] = entries[lastOf(observedOn(k, row.date))].price
          ELSE IF earlierDates(k, row.date) # {}
          THEN /\ r \in DOMAIN row.cells
               /\ row.cells[r] =
                    entries[lastOf(observedOn(
                              k, latestOf(earlierDates(k, row.date))))].price
          ELSE r \notin DOMAIN row.cells

\* C16 witness: merge({A: [(d1, 100), (d3, 110)], B: [(d2, 90)]}) has given
\* A = 100 at d2, B missing at d1 and B = 90 at d3
C16_Witness ==
  /\ HistoryMerged
  /\ comparisonData = <<"PBTech", "Noel Leeming">>
  /\ stored[1].entries = << [timestamp |-> DayOneMorning, price |-> 100],
                            [timestamp |-> DayThree, price |-> 110] >>
  /\ stored[2].entries = << [timestamp |-> DayTwo, price |-> 90] >>
  /\ Len(priceHistory) = 3
  /\ priceHistory[1].cells = ("PBTech" :> 100)
  /\ priceHistory[2].cells = ("PBTech" :> 100) @@ ("Noel Leeming" :> 90)
  /\ priceHistory[3].cells = ("PBTech" :> 110) @@ ("Noel Leeming" :> 90)

\* Every retailer of the group has exactly one observation on every date
DenseInput ==
  /\ observedDates # {}
  /\ \A k \in DOMAIN comparisonData, d \in observedDates :
       Cardinality(observedOn(k, d)) = 1

\* The series of each retailer read back from merged rows
seriesOfRows(rows, retailers) ==
  [k \in DOMAIN retailers |->
     [retailer |-> retailers[k],
      history |->
        LET having == SelectSeq(rows, LAMBDA row : retailers[k] \in DOMAIN row.cells)
        IN  [n \in DOMAIN having |->
               [timestamp |-> having[n].date,
                price |-> having[n].cells[retailers[k]]]]]]

\* C17: when every retailer has exactly one observation on every date, the
\* merged series holds those observations unchanged, and merging the merged
\* series again yields the same series.
C17_IdempotentOnDense ==
  HistoryMerged /\ DenseInput =>
    /\ \A n \in DOMAIN priceHistory :
         /\ DOMAIN priceHistory[n].cells = Range(comparisonData)
         /\ \A k \in DOMAIN comparisonData :
              priceHistory[n].cells[comparisonData[k]]
                = stored[k].entries[lastOf(observedOn(k, priceHistory[n].date))].price
    /\ Len(priceHistory) = Cardinality(observedDates)
    /\ merge(seriesOfRows(priceHistory, comparisonData), comparisonData)
         = priceHistory

\* C17 witness: two retailers, both observed once on each of two dates, at
\* different prices
C17_Witness ==
  /\ HistoryMerged
  /\ DenseInput
  /\ Len(comparisonData) = 2
  /\ Len(priceHistory) = 2
  /\ priceHistory[1].cells["PBTech"] # priceHistory[2].cells["PBTech"]
  /\ priceHistory[1].cells["PBTech"] # priceHistory[1].cells["Noel Leeming"]

\* C18: the series shown is non-empty only when every history request of
\* the group was answered, and then it is the merge of all of them; once a
\* request has failed (rejected, or answered by a body that is no array) the
\* series shown is empty.
C18_MergeAfterAllFetches ==
  /\ priceHistory # <<>> =>
       /\ historyPc = "done"
       /\ \A k \in DOMAIN comparisonData :
            historyFetch[k] = "fulfilled" /\ stored[k].isArray
       /\ priceHistory =
            merge([k \in DOMAIN comparisonData |->
                     [retailer |-> comparisonData[k],
                      history |-> stored[k].entries]], comparisonData)
  /\ historyPc = "done" => \A k \in DOMAIN historyFetch : historyFetch[k] = "fulfilled"
  /\ (\E k \in DOMAIN historyFetch :
        \/ historyFetch[k] = "rejected"
        \/ historyFetch[k] = "fulfilled" /\ ~stored[k].isArray)
       => priceHistory = <<>>

\* C18 witness: the first retailer's history has arrived with entries, the
\* request of the second has failed, and the series shown is empty
C18_Witness ==
  /\ historyPc = "failed"
  /\ Len(comparisonData) = 2
  /\ historyFetch = <<"fulfilled", "rejected">>
  /\ stored[1].isArray
  /\ stored[1].entries # <<>>
  /\ priceHistory = <<>>


\* ------------------------------------------------------------------------
\* Properties of the add form, continued
\* ------------------------------------------------------------------------

\* C19: when both strategies of handleVariantSelected leave no listing, the
\* handler reports "no matching products" and returns without sending an
\* add-selected request; an add-selected request is in flight only after a
\* match with at least one listing that the user confirmed, and it carries
\* exactly the matched listings.
C19_NoMatchSendsNothing ==
  /\ outcome = "no-match" =>
       /\ matchingProducts = <<>>
       /\ alert = "No matching products found"
       /\ addRequest = <<>>
       /\ pc = "idle"
       /\ ~loading
  /\ (pc = "add-selected" \/ addRequest # <<>>) =>
       /\ pc = "add-selected"
       /\ outcome = "confirmed"
       /\ Len(matchingProducts) >= 1
       /\ addRequest = matchingProducts
  /\ outcome \in {"cancelled", "threw"} => addRequest = <<>> /\ pc = "idle"

\* C19 witness: a variant without a model code was chosen, the model
\* strategy gave nothing, the fuzzy strategy ran and gave nothing either
C19_Witness ==
  /\ outcome = "no-match"
  /\ selectedVariant # 0
  /\ modelMatched = <<>>
  /\ triedFuzzy
  /\ matchingProducts = <<>>
  /\ Len(searchResults.allProducts) >= 2
  /\ addRequest = <<>>

\* A listing without a model code whose name leaves coreWords, tiers and
\* storage empty
emptyKeyed ==
  [id \in ProductIds |->
     /\ ~hasModelOf[id]
     /\ Catalogue[id].hasName
     /\ LET parts == identityOf(Catalogue[id].name)
        IN  parts.coreWords = <<>> /\ parts.tiers = <<>> /\ parts.storage = <<>>]

\* C20: a listing without a model code whose name is empty, or holds no
\* core word, tier word or storage size, gets the empty string as identity
\* key and is kept by the deduplication: the first such listing of the
\* response is among the deduplicated products, and no other one is.
C20_EmptyKeyKept ==
  /\ \A id \in ProductIds : emptyKeyed[id] => identityKey[id] = <<>>
  /\ searchResults.present =>
       LET all == searchResults.allProducts
           unique == searchResults.products
           empties == {i \in DOMAIN all : emptyKeyed[all[i]]}
       IN  empties # {} =>
             LET first == CHOOSE i \in empties : \A j \in empties : i <= j
             IN  /\ \E k \in DOMAIN unique : unique[k] = all[first]
                 /\ Cardinality({k \in DOMAIN unique : emptyKeyed[unique[k]]}) = 1

\* C20 witness: a response with the listing named "" and, later, the
\* listing named "The New"; only the former is among the products
C20_Witness ==
  /\ searchResults.present
  /\ \E i, j \in DOMAIN searchResults.allProducts :
       /\ i < j
       /\ searchResults.allProducts[i] = idOf(EmptyName)
       /\ searchResults.allProducts[j] = idOf(FillerOnly)
  /\ \E k \in DOMAIN searchResults.products :
       searchResults.products[k] = idOf(EmptyName)
  /\ \A k \in DOMAIN searchResults.products :
       searchResults.products[k] # idOf(FillerOnly)


\* C21: a search whose response arrived with data.success never ends in the
\* catch block because of a listing without a name: such a listing is
\* dropped, and the deduplicated products of the other listings are set.
C21_NamelessListingDropped ==
  alert = "Search failed: Cannot read properties of undefined"
    => searchResults.present


\* C23: once handleVariantSelected has computed matchingProducts for the
\* chosen variant, every listing of the response with the identity key of
\* the variant (every listing the deduplication folded into it) is among
\* matchingProducts.
C23_ResolverMatcherAgree ==
  MatchCompleted =>
    \A i \in DOMAIN searchResults.allProducts :
      identityKey[searchResults.allProducts[i]] = identityKey[selectedVariant]
        => \E k \in DOMAIN matchingProducts :
             matchingProducts[k] = searchResults.allProducts[i]


\* C30: when a retailer has several observations on one calendar date, the
\* row of that date holds the price of the last of them in the order of the
\* history, and so does every later row filled forward from that date; the
\* earlier observations of the day are in no row.
C30_LastOfDayWins ==
  HistoryMerged =>
    \A k \in DOMAIN comparisonData, d \in observedDates :
      Cardinality(observedOn(k, d)) >= 2 =>
        LET last == stored[k].entries[lastOf(observedOn(k, d))].price
            r == comparisonData[k]
        IN  \A n \in DOMAIN priceHistory :
              \/ strLess(priceHistory[n].date, d)
              \/ \E e \in datesOfProduct(k) :
                   strLess(d, e) /\ ~strLess(priceHistory[n].date, e)
              \/ r \in DOMAIN priceHistory[n].cells
                   /\ priceHistory[n].cells[r] = last

\* C30 witness: the first retailer was observed twice on the first day at
\* different prices, the day's row shows the second price, and a later row
\* is filled from it
C30_Witness ==
  /\ HistoryMerged
  /\ Len(comparisonData) = 2
  /\ Len(stored[1].entries) = 2
  /\ stored[1].entries[1].timestamp = DayOneMorning
  /\ stored[1].entries[2].timestamp = DayOneEvening
  /\ stored[1].entries[1].price # stored[1].entries[2].price
  /\ Len(priceHistory) = 2
  /\ priceHistory[1].cells[comparisonData[1]] = stored[1].entries[2].price
  /\ priceHistory[2].cells[comparisonData[1]] = stored[1].entries[2].price


\* C28: when no handler of the add form is waiting for a response any more,
\* loading is false: every run of a handler that set loading to true has set
\* it back, whatever its outcome.
C28_LoadingReset == pc = "idle" => ~loading


\* ------------------------------------------------------------------------
\* The group comparator: compare(products) behind GET /groups/<id>
\* ------------------------------------------------------------------------

ComparePrices == {100, 120, 150, 200}

MaxProducts == 3

\* The products of a group, each by its current price, in stored order
ProductLists == UNION {[1..n -> ComparePrices] : n \in 1..MaxProducts}

\* The lowest and the highest price among the products
lowestPrice(products) ==
  CHOOSE p \in Range(products) : \A q \in Range(products) : p <= q

highestPrice(products) ==
  CHOOSE p \in Range(products) : \A q \in Range(products) : q <= p

\* Faulty variant of firstPriced: ties go to the product seen last
lastPriced(products, price) ==
  CHOOSE k \in DOMAIN products :
    /\ products[k] = price
    /\ \A j \in DOMAIN products : products[j] = price => j <= k

\* Ties are broken by first-seen order: the first product at that price
firstPriced(products, price) ==
  CHOOSE k \in DOMAIN products :
    /\ products[k] = price
    /\ \A j \in DOMAIN products : products[j] = price => k <= j

\* compare(products) -> {cheapest, most_expensive, price_range, products};
\* a product is named by its place in products
compare(products) ==
  [present        |-> TRUE,
   cheapest       |-> firstPriced(products, lowestPrice(products)),
   most_expensive |-> firstPriced(products, highestPrice(products)),
   price_range    |-> highestPrice(products) - lowestPrice(products)]

\* The group holds these products when it is asked for
CompareInit ==
  /\ groupProducts \in ProductLists
  /\ comparisonResult = NoComparison
  /\ FormInit
  /\ KeyUnused
  /\ HistoryUnused
  /\ SelectUnused
  /\ MainUnused

\* GET /groups/<id> computes the comparison of the group's products
Compare ==
  /\ ~comparisonResult.present
  /\ comparisonResult' = compare(groupProducts)
  /\ UNCHANGED << groupProducts, formVars, keyVars, historyVars, selectVars,
                  mainVars >>

CompareNext == Compare

CompareSpec == CompareInit /\ [][CompareNext]_vars

\* C22: the cheapest product is the first one, in input order, whose price
\* is the lowest, the most expensive the first one whose price is the
\* highest, and price_range is the difference of their prices; prices 120,
\* 150, 120 give the first product as cheapest and a range of 30, and a
\* single product is both cheapest and most expensive with a range of 0
C22_CheapestFirstSeen ==
  comparisonResult.present =>
    LET c == comparisonResult.cheapest
        m == comparisonResult.most_expensive
    IN  /\ c \in DOMAIN groupProducts
        /\ m \in DOMAIN groupProducts
        /\ \A k \in DOMAIN groupProducts :
             /\ groupProducts[c] <= groupProducts[k]
             /\ groupProducts[k] <= groupProducts[m]
             /\ k < c => groupProducts[c] < groupProducts[k]
             /\ k < m => groupProducts[k] < groupProducts[m]
        /\ comparisonResult.price_range = groupProducts[m] - groupProducts[c]
        /\ groupProducts = << 120, 150, 120 >>
             => c = 1 /\ comparisonResult.price_range = 30
        /\ Len(groupProducts) = 1
             => c = m /\ comparisonResult.price_range = 0

C22_Witness ==
  /\ groupProducts = << 120, 150, 120 >>
  /\ comparisonResult.present
  /\ comparisonResult.cheapest = 1
  /\ comparisonResult.most_expensive = 2
  /\ comparisonResult.price_range = 30




\* ------------------------------------------------------------------------
\* The main process of the desktop shell: backend start-up, windows, quit
\* ------------------------------------------------------------------------

Platforms == {"darwin", "win32", "linux"}

\* async function waitForFlask(maxRetries = 30)
maxRetries == 30

\* The user asks the app to quit while before-quit was emitted fewer times
MaxQuits == 2

IS_MAC == platform = "darwin"

\* Faulty variant of getBackendCommand: the binary is not looked for
getBackendCommandUnchecked == IF isPackaged THEN "bundle" ELSE "python"

\* getBackendCommand(): null when the packaged binary is missing
getBackendCommand ==
  IF isPackaged
  THEN IF ~binaryExists THEN "null" ELSE "bundle"
  ELSE "python"

\* Faulty variant of moreAttempts: one attempt too many
moreAttemptsOffByOne(n) == n <= maxRetries

\* waitForFlask: the loop condition i < maxRetries
moreAttempts(n) == n < maxRetries

\* Faulty variant of flaskProcessAfterKill: the reference is kept
flaskProcessKeptAfterKill == TRUE

\* killFlask: flaskProcess = null at its end
flaskProcessAfterKill == FALSE

\* The process has not ended: its handlers can still run
Alive == quitting # "exited"

\* killFlask(): taskkill on Windows, SIGTERM elsewhere
killFlask ==
  IF ~flaskProcess
  THEN UNCHANGED << flaskProcess, kills >>
  ELSE /\ kills' = kills + 1
       /\ flaskProcess' = flaskProcessAfterKill

\* app.on('before-quit', ...)
BeforeQuit ==
  /\ beforeQuits' = beforeQuits + 1
  /\ killFlask

\* app.quit(): before-quit is emitted at once, then the windows are closed
\* and the process ends
appQuit ==
  /\ BeforeQuit
  /\ quitting' = "closing"

\* The app is launched; app.whenReady() is pending
MainInit ==
  /\ platform \in Platforms
  /\ isPackaged \in BOOLEAN
  /\ binaryExists \in BOOLEAN
  /\ startup = "launching"
  /\ attempt = 0
  /\ healthRequests = 0
  /\ flaskProcess = FALSE
  /\ backend = "none"
  /\ loadingWindow = FALSE
  /\ mainWindow = FALSE
  /\ allClosed = FALSE
  /\ errorBoxes = 0
  /\ quitting = "none"
  /\ beforeQuits = 0
  /\ kills = 0
  /\ FormInit
  /\ KeyUnused
  /\ HistoryUnused
  /\ CompareUnused
  /\ SelectUnused

outsideMain ==
  << formVars, keyVars, historyVars, compareVars, selectVars, platform,
     isPackaged, binaryExists >>

\* app.whenReady().then(async () => { ... up to the first await: the loading
\* window, startFlask() and, when it started, the first health request of
\* waitForFlask(); spawn() hands back a child that runs or that will report
\* an error
WhenReady ==
  /\ quitting = "none"
  /\ startup = "launching"
  /\ IF getBackendCommand = "null"
     THEN /\ startup' = "no-backend"
          /\ loadingWindow' = FALSE
          /\ allClosed' = TRUE
          /\ errorBoxes' = errorBoxes + 1
          /\ appQuit
          /\ UNCHANGED << backend, healthRequests >>
     ELSE /\ flaskProcess' = TRUE
          /\ backend' \in {"running", "spawn-error"}
          /\ loadingWindow' = TRUE
          /\ startup' = "fetching"
          /\ healthRequests' = healthRequests + 1
          /\ UNCHANGED << allClosed, errorBoxes, quitting, beforeQuits,
                          kills >>
  /\ UNCHANGED << attempt, mainWindow, outsideMain >>

\* createWindow()
createWindow == mainWindow' = TRUE

\* waitForFlask: the health request is answered. An ok response returns
\* true and the start-up goes on: loadingWindow.close(), createWindow().
\* Any other response and any error lead to the one-second wait
HealthResponse(ok) ==
  /\ Alive
  /\ startup = "fetching"
  /\ IF ok
     THEN /\ startup' = "started"
          /\ loadingWindow' = FALSE
          /\ createWindow
     ELSE /\ startup' = "sleeping"
          /\ UNCHANGED << loadingWindow, mainWindow >>
  /\ UNCHANGED << attempt, healthRequests, flaskProcess, backend, allClosed,
                  errorBoxes, quitting, beforeQuits, kills, outsideMain >>

\* waitForFlask: the wait is over, i++, and either the next request is
\* made or the loop ends and false is returned: loadingWindow.close(),
\* dialog.showErrorBox(), app.quit()
RetryTimer ==
  /\ Alive
  /\ startup = "sleeping"
  /\ attempt' = attempt + 1
  /\ IF moreAttempts(attempt + 1)
     THEN /\ startup' = "fetching"
          /\ healthRequests' = healthRequests + 1
          /\ UNCHANGED << loadingWindow, allClosed, errorBoxes, quitting,
                          beforeQuits, flaskProcess, kills >>
     ELSE /\ startup' = "failed"
          /\ loadingWindow' = FALSE
          /\ allClosed' = (allClosed \/ ~mainWindow)
          /\ errorBoxes' = errorBoxes + 1
          /\ appQuit
          /\ UNCHANGED healthRequests
  /\ UNCHANGED << backend, mainWindow, outsideMain >>

\* app.on('activate', ...): the dock icon is clicked (macOS only)
Activate ==
  /\ Alive
  /\ IS_MAC
  /\ startup # "launching"
  /\ IF ~mainWindow THEN createWindow ELSE UNCHANGED mainWindow
  /\ UNCHANGED << startup, attempt, healthRequests, flaskProcess, backend,
                  loadingWindow, allClosed, errorBoxes, quitting, beforeQuits,
                  kills, outsideMain >>

\* mainWindow.on('closed', ...): the user closed the main window
MainWindowClosed ==
  /\ Alive
  /\ mainWindow
  /\ mainWindow' = FALSE
  /\ allClosed' = (allClosed \/ ~loadingWindow)
  /\ UNCHANGED << startup, attempt, healthRequests, flaskProcess, backend,
                  loadingWindow, errorBoxes, quitting, beforeQuits, kills,
                  outsideMain >>

\* app.on('window-all-closed', ...)
WindowAllClosed ==
  /\ Alive
  /\ allClosed
  /\ allClosed' = FALSE
  /\ IF ~IS_MAC
     THEN appQuit
     ELSE UNCHANGED << quitting, beforeQuits, flaskProcess, kills >>
  /\ UNCHANGED << startup, attempt, healthRequests, backend, loadingWindow,
                  mainWindow, errorBoxes, outsideMain >>

\* The user asks the app to quit: app.quit()
UserQuit ==
  /\ Alive
  /\ beforeQuits < MaxQuits
  /\ appQuit
  /\ UNCHANGED << startup, attempt, healthRequests, backend, loadingWindow,
                  mainWindow, allClosed, errorBoxes, outsideMain >>

\* The windows are closed and the process ends
Exit ==
  /\ quitting = "closing"
  /\ quitting' = "exited"
  /\ UNCHANGED << startup, attempt, healthRequests, flaskProcess, backend,
                  loadingWindow, mainWindow, allClosed, errorBoxes, beforeQuits,
                  kills, outsideMain >>

\* flaskProcess.on('close', ...): the backend process ended
BackendClosed ==
  /\ Alive
  /\ backend = "running"
  /\ backend' = "exited"
  /\ flaskProcess' = FALSE
  /\ UNCHANGED << startup, attempt, healthRequests, loadingWindow, mainWindow,
                  allClosed, errorBoxes, quitting, beforeQuits, kills, outsideMain >>

\* flaskProcess.on('error', ...): the backend could not be spawned
BackendError ==
  /\ Alive
  /\ backend = "spawn-error"
  /\ backend' = "failed"
  /\ flaskProcess' = FALSE
  /\ UNCHANGED << startup, attempt, healthRequests, loadingWindow, mainWindow,
                  allClosed, errorBoxes, quitting, beforeQuits, kills, outsideMain >>

MainNext ==
  \/ WhenReady
  \/ \E ok \in BOOLEAN : HealthResponse(ok)
  \/ RetryTimer
  \/ Activate
  \/ MainWindowClosed
  \/ WindowAllClosed
  \/ UserQuit
  \/ Exit
  \/ BackendClosed
  \/ BackendError

MainSpec == MainInit /\ [][MainNext]_vars

\* C25: the main window is there only once the health check has succeeded
C25_WindowAfterBackendReady == mainWindow => startup = "started"

\* C26: waitForFlask makes at most maxRetries health requests; it returns
\* true at the first ok response and asks nothing more; it returns false
\* exactly when all maxRetries requests failed, and then the error dialog
\* is shown and the app is asked to quit
C26_WaitForFlaskBounded ==
  /\ [](/\ healthRequests <= maxRetries
        /\ startup = "started" => healthRequests = attempt + 1
        /\ startup = "failed" <=> attempt = maxRetries
        /\ startup = "failed"
             => /\ healthRequests = maxRetries
                /\ errorBoxes = 1
                /\ quitting # "none")
  /\ [][/\ startup \in {"started", "failed"}
             => healthRequests' = healthRequests
        /\ startup' = "started" => healthRequests' = healthRequests]_vars

C26_Witness ==
  /\ startup = "failed"
  /\ healthRequests = maxRetries
  /\ errorBoxes = 1
  /\ quitting = "exited"

C26_WitnessReady ==
  /\ startup = "started"
  /\ healthRequests = 3
  /\ attempt = 2

\* C27: the before-quit handler sends a backend that is still referenced
\* one termination request and leaves flaskProcess null; it does nothing
\* when flaskProcess is null; a backend still running when the app has quit
\* was sent the request, also after a failed start-up; no backend is sent
\* more than one request
C27_BackendKilledOnQuit ==
  /\ [](/\ kills <= 1
        /\ backend = "running" /\ quitting \in {"closing", "exited"}
             => kills = 1
        /\ quitting \in {"closing", "exited"} => ~flaskProcess)
  /\ [][beforeQuits' = beforeQuits + 1
          => /\ ~flaskProcess'
             /\ flaskProcess => kills' = kills + 1
             /\ ~flaskProcess => kills' = kills]_vars

C27_Witness ==
  /\ startup = "failed"
  /\ backend = "running"
  /\ quitting = "exited"
  /\ beforeQuits = 2
  /\ kills = 1
  /\ ~flaskProcess

\* C29: packaged without its backend binary, the start-up spawns nothing,
\* makes no health request and creates no main window, shows the error
\* dialog and asks the app to quit
C29_MissingBinaryStopsStartup ==
  isPackaged /\ ~binaryExists /\ startup # "launching"
    => /\ startup = "no-backend"
       /\ ~flaskProcess
       /\ backend = "none"
       /\ healthRequests = 0
       /\ errorBoxes = 1
       /\ quitting # "none"
       /\ kills = 0

C29_Witness ==
  /\ isPackaged
  /\ ~binaryExists
  /\ startup = "no-backend"
  /\ errorBoxes = 1
  /\ quitting = "exited"


\* ------------------------------------------------------------------------
\* Selecting a group: fetchComparison and the price history that follows
\* ------------------------------------------------------------------------

GroupIds == {1, 2}

\* How many times a group is clicked
MaxSelections == 3

\* The products of each group, each by its retailer
productsOfGroup == << << "PBTech" >>, << "PBTech", "Noel Leeming" >> >>

\* What /products/<id>/history answers for each product of each group
historyOfGroup ==
  << << [isArray |-> TRUE,
         entries |-> << [timestamp |-> DayOneMorning, price |-> 100],
                        [timestamp |-> DayTwo, price |-> 110] >>] >>,
     << [isArray |-> TRUE,
         entries |-> << [timestamp |-> DayOneMorning, price |-> 90] >>],
        [isArray |-> TRUE,
         entries |-> << [timestamp |-> DayTwo, price |-> 100] >>] >> >>

\* The rows fetchGroupPriceHistory sets for a group once every history
\* request is fulfilled
mergedOfGroup ==
  [g \in GroupIds |->
     merge(allHistoryOf(resolvedHistory(
             productsOfGroup[g], historyOfGroup[g],
             [k \in DOMAIN productsOfGroup[g] |-> "fulfilled"])),
           productsOfGroup[g])]

\* The groups are listed and none is selected
SelectInit ==
  /\ SelectUnused
  /\ HistoryUnused
  /\ FormInit
  /\ KeyUnused
  /\ CompareUnused
  /\ MainUnused

outsideSelect ==
  << formVars, keyVars, compareVars, mainVars, comparisonData, stored,
     historyFetch, historyPc >>

\* onClick={() => setSelectedGroup(group)} and the effect on selectedGroup:
\* fetchComparison(selectedGroup.id) up to its await: setPriceHistory([])
\* and the request for the group
SelectGroup(g) ==
  /\ selections < MaxSelections
  /\ g # selectedGroup
  /\ selections' = selections + 1
  /\ selectedGroup' = g
  /\ priceHistory' = <<>>
  /\ inFlight' = Append(inFlight, [group |-> g, stage |-> "comparison"])
  /\ UNCHANGED << comparison, outsideSelect >>

\* fetchComparison after its await: the request of run k is answered. An
\* ok answer holding data.group is set as the comparison and
\* fetchGroupPriceHistory(data) sends the history requests; any other answer
\* and any error set the comparison to null
ComparisonResponse(k, answer) ==
  /\ k \in DOMAIN inFlight
  /\ inFlight[k].stage = "comparison"
  /\ IF answer = "ok"
     THEN /\ comparison' = [present |-> TRUE, group |-> inFlight[k].group]
          /\ inFlight' = [inFlight EXCEPT ![k].stage = "history"]
     ELSE /\ comparison' = NoGroupData
          /\ inFlight' = [inFlight EXCEPT ![k].stage = "done"]
  /\ UNCHANGED << selectedGroup, selections, priceHistory, outsideSelect >>

\* fetchGroupPriceHistory after await Promise.all of run k: the merged rows
\* are set, or the empty series when a request failed
HistoryResponse(k, fulfilled) ==
  /\ k \in DOMAIN inFlight
  /\ inFlight[k].stage = "history"
  /\ priceHistory' = IF fulfilled THEN mergedOfGroup[inFlight[k].group]
                                  ELSE <<>>
  /\ inFlight' = [inFlight EXCEPT ![k].stage = "done"]
  /\ UNCHANGED << selectedGroup, selections, comparison, outsideSelect >>

SelectNext ==
  \/ \E g \in GroupIds : SelectGroup(g)
  \/ \E k \in 1..MaxSelections, answer \in {"ok", "not-ok", "error"} :
       ComparisonResponse(k, answer)
  \/ \E k \in 1..MaxSelections, fulfilled \in BOOLEAN :
       HistoryResponse(k, fulfilled)

SelectSpec == SelectInit /\ [][SelectNext]_vars

\* C24: group 1 was selected, then group 2, and every request made for them
\* is over: the comparison shown and the price history shown are those of
\* group 2
C24_LatestSelectionShown ==
  /\ Len(inFlight) = 2
  /\ inFlight[1].group = 1
  /\ inFlight[2].group = 2
  /\ \A k \in DOMAIN inFlight : inFlight[k].stage = "done"
  => /\ selectedGroup = 2
     /\ comparison.present => comparison.group = 2
     /\ priceHistory # <<>> => priceHistory = mergedOfGroup[2]

====
